---- MODULE Spec2Model ----
(***************************************************************************)
(* The Rwanda malaria dashboard (src/app.py) as a state machine.  One      *)
(* script run (a Streamlit rerun) is one step: it loads the source files   *)
(* through the process-wide cache, reads the widget selections, filters    *)
(* the selected dataset, and computes the KPIs and the chart inputs.  The  *)
(* files on disk are as each load finds them.  The loaders of src/utils.py *)
(* are not imported by app.py and take no part in a run.                   *)
(*                                                                         *)
(* A table (DataFrame) is a record [cols, rows]: cols is the set of its    *)
(* column names and rows a sequence of records over exactly these columns. *)
(* A missing cell (NaN) is the string NA.  A date is <<year, month>>.      *)
(***************************************************************************)
EXTENDS Integers, Sequences, FiniteSets, TLC

VARIABLES
    fs,        \* file name -> "present" | "absent" | "bad" (unparsable, GeoJSON only)
    content,   \* CSV file name -> the table pd.read_csv returns for it
    cache,     \* st.cache_data's entry for load_all_data()
    reads,     \* file name -> how often the file has been read and parsed
    stage,     \* where the last script run ended
    sel,       \* the widget selections of the last run that reached the widgets
    df,        \* the filtered table of the last run
    out        \* the KPIs and chart inputs of the last run

vars == <<fs, content, cache, reads, stage, sel, df, out>>

(***************************************************************************)
(* Bounds of the model.                                                    *)
(***************************************************************************)
MaxRows == 2
MaxReads == 2

(***************************************************************************)
(* Program constants.                                                      *)
(***************************************************************************)
VALUE_COL == "Total"
AGE_COL == "age_category_new"
GENDER_COL == "gender"
DISTRICT_COL == "district_clean"
SECTOR_COL == "sector"
TopN == 15
month_order ==
    <<"January", "February", "March", "April", "May", "June", "July",
      "August", "September", "October", "November", "December">>
AggregationPeriods == {"Yearly", "Quarterly", "Monthly"}
AllDistricts == "All Districts"
AllMonths == "All Months"
\* 'All Years' stands in a list of integers; the empty tuple is the sentinel
\* and <<y>> the option for year y.
AllYears == <<>>
DatasetNames == <<"OPD Cases", "CHW Cases", "Fever Cases">>
CsvFiles == <<"opd", "chw", "fever">>
GeoFile == "geo"
Files == {"opd", "chw", "fever", "geo"}
FileOf(name) ==
    CASE name = "OPD Cases" -> "opd"
      [] name = "CHW Cases" -> "chw"
      [] name = "Fever Cases" -> "fever"
SourceOf(f) ==
    CASE f = "opd" -> "OPD"
      [] f = "chw" -> "CHWs"
      [] f = "fever" -> "Fever Cases"

NA == "NaN"
RawCols ==
    {DISTRICT_COL, SECTOR_COL, "year", "month", VALUE_COL, AGE_COL, GENDER_COL}

(***************************************************************************)
(* Python's order on the strings the model uses (sorted(), groupby's key   *)
(* order).                                                                 *)
(***************************************************************************)
StrOrder == <<"A", "B", "C", "F", "M", "S1", "S2", "U5">>
StrRank(s) == CHOOSE i \in 1..Len(StrOrder) : StrOrder[i] = s
MonthIndex(m) == CHOOSE i \in 1..Len(month_order) : month_order[i] = m

Range(s) == {s[i] : i \in 1..Len(s)}

\* The sequence [i \in 1..n |-> e] with its elements computed once.
AsSeq(f) == <<>> \o f

RECURSIVE SortByRank(_, _)
\* sorted(S, key=rank): the elements of S in ascending order of rank.
SortByRank(S, rank) ==
    IF S = {} THEN <<>>
    ELSE LET lo == CHOOSE x \in S : \A z \in S : rank[x] <= rank[z]
         IN  <<lo>> \o SortByRank(S \ {lo}, rank)

RECURSIVE SumOf(_, _)
\* Series.sum() of column col over rows.
SumOf(rows, col) ==
    IF rows = <<>> THEN 0 ELSE rows[1][col] + SumOf(Tail(rows), col)

(***************************************************************************)
(* Loading: preprocess_df and load_all_data.                               *)
(***************************************************************************)
\* pd.to_datetime(str(year) + '-' + month, format='%Y-%B')
ToDatetime(y, m) == <<y, MonthIndex(m)>>

\* preprocess_df raises KeyError unless the table has 'year' and 'month'.
CanPreprocess(t) == {"year", "month"} \subseteq t.cols

\* preprocess_df(df_raw, source_name): adds the columns to df_raw itself and
\* returns it, so this is also the table the caller passed in, afterwards.
preprocess_df(t, source_name) ==
    [cols |-> t.cols \cup {"date", "source"},
     rows |-> AsSeq([i \in 1..Len(t.rows) |->
                 t.rows[i] @@ [date |-> ToDatetime(t.rows[i]["year"], t.rows[i]["month"]),
                               source |-> source_name]])]

Regions == <<"A", "C">>

EmptyCache == [state |-> "empty"]
NoneNone == [state |-> "none"]
Loaded(ds, gdf) == [state |-> "loaded", datasets |-> ds, gdf |-> gdf]

\* A loader under which a missing file costs only what depends on it: an
\* absent table loads as an empty one, and the map data is always there.
load_all_data_per_file(files, tables) ==
    IF \E f \in Range(CsvFiles) : files[f] = "present" /\ ~CanPreprocess(tables[f])
    THEN [kind |-> "raise", read |-> {}, value |-> [state |-> "none"]]
    ELSE [kind |-> "ok", read |-> {f \in Files : files[f] = "present"},
          value |-> [state |-> "loaded",
                     datasets |-> [n \in Range(DatasetNames) |->
                                      IF files[FileOf(n)] = "present"
                                      THEN preprocess_df(tables[FileOf(n)], SourceOf(FileOf(n)))
                                      ELSE [cols |-> RawCols \cup {"date", "source"},
                                            rows |-> <<>>]],
                     gdf |-> Regions]]

RECURSIVE LoadCsvs(_, _, _)
\* The try block of load_all_data over the CSV files from position i on:
\* read_csv then preprocess_df, one file after the other; the first missing
\* file ends the load with (None, None), the first KeyError leaves the function.
LoadCsvs(i, files, tables) ==
    IF i > Len(CsvFiles) THEN [kind |-> "ok", read |-> {}]
    ELSE LET f == CsvFiles[i]
         IN  IF files[f] = "absent" THEN [kind |-> "none", read |-> {}]
             ELSE IF ~CanPreprocess(tables[f]) THEN [kind |-> "raise", read |-> {f}]
             ELSE LET rest == LoadCsvs(i + 1, files, tables)
                  IN  [kind |-> rest.kind, read |-> rest.read \cup {f}]

\* load_all_data(): the outcome (ok, none = (None, None), raise), the files it
\* read, and the value it returns.
load_all_data(files, tables) ==
    LET csv == LoadCsvs(1, files, tables)
    IN  IF csv.kind # "ok" THEN [kind |-> csv.kind, read |-> csv.read, value |-> NoneNone]
        ELSE IF files[GeoFile] = "absent"
             THEN [kind |-> "none", read |-> csv.read, value |-> NoneNone]
        ELSE IF files[GeoFile] = "bad"
             THEN [kind |-> "none", read |-> csv.read \cup {GeoFile}, value |-> NoneNone]
        ELSE [kind |-> "ok", read |-> csv.read \cup {GeoFile},
              value |-> Loaded([n \in Range(DatasetNames) |->
                                   preprocess_df(tables[FileOf(n)], SourceOf(FileOf(n)))],
                               Regions)]

(***************************************************************************)
(* The sidebar and the filter widgets (lines 63-115).                      *)
(***************************************************************************)
\* DataFrame.copy(): a new table with the same columns and rows.
copy(t) == [cols |-> t.cols, rows |-> t.rows]

\* df[col].unique() as a set.
Unique(rows, col) == {rows[i][col] : i \in 1..Len(rows)}

\* ['All Districts'] + sorted(df_master['district_clean'].unique())
district_list(df_master) ==
    LET S == Unique(df_master.rows, DISTRICT_COL)
    IN  <<AllDistricts>> \o SortByRank(S, [x \in S |-> StrRank(x)])

\* ['All Years'] + sorted(df_master['year'].unique(), reverse=True)
year_list(df_master) ==
    LET S == Unique(df_master.rows, "year")
        desc == SortByRank(S, [x \in S |-> -x])
    IN  <<AllYears>> \o [i \in 1..Len(desc) |-> <<desc[i]>>]

\* The month options: the months of the selected year, or of all the data,
\* in calendar order.
available_months(df_master, selected_year) ==
    LET rows == IF selected_year # AllYears
                THEN SelectSeq(df_master.rows, LAMBDA r : r["year"] = selected_year[1])
                ELSE df_master.rows
        S == Unique(rows, "month")
    IN  <<AllMonths>> \o SortByRank(S, [x \in S |-> MonthIndex(x)])

(***************************************************************************)
(* The filter block (lines 125-136) and the empty check (lines 138-141).   *)
(***************************************************************************)
\* A filter that leaves the month selection out.
FilterRowsWithoutMonth(rows, selected_district, selected_year, selected_month) ==
    SelectSeq(rows, LAMBDA r :
        /\ selected_district = AllDistricts \/ r[DISTRICT_COL] = selected_district
        /\ selected_year = AllYears \/ r["year"] = selected_year[1])

FilterRows(rows, selected_district, selected_year, selected_month) ==
    LET byDistrict == IF selected_district # AllDistricts
                      THEN SelectSeq(rows, LAMBDA r : r[DISTRICT_COL] = selected_district)
                      ELSE rows
        byYear == IF selected_year # AllYears
                  THEN SelectSeq(byDistrict, LAMBDA r : r["year"] = selected_year[1])
                  ELSE byDistrict
    IN  IF selected_month # AllMonths
        THEN SelectSeq(byYear, LAMBDA r : r["month"] = selected_month)
        ELSE byYear

\* A script without the empty check.
NoEmptyCheck(rows) == FALSE

\* if df.empty: st.warning(...); st.stop()
StopsOnEmpty(rows) == rows = <<>>

(***************************************************************************)
(* Grouping and ranking: groupby(col)[VALUE_COL].sum(), nlargest,          *)
(* sort_values.  A grouped series is a sequence of <<key, total>>.         *)
(***************************************************************************)
RECURSIVE KeysByFirstOccurrence(_, _)
\* groupby(sort=False): the keys in the order of their first record.
KeysByFirstOccurrence(rows, col) ==
    IF rows = <<>> THEN <<>>
    ELSE LET k == Head(rows)[col]
             rest == KeysByFirstOccurrence(SelectSeq(Tail(rows), LAMBDA r : r[col] # k), col)
         IN  IF k = NA THEN rest ELSE <<k>> \o rest

\* groupby's keys: the distinct values of the column, NaN dropped
\* (dropna=True), in sorted order (sort=True).
GroupKeys(rows, col) ==
    LET S == Unique(rows, col) \ {NA}
    IN  SortByRank(S, [x \in S |-> StrRank(x)])

GroupBySum(rows, col) ==
    LET sums(keys) ==
            AsSeq([i \in 1..Len(keys) |->
               <<keys[i], SumOf(SelectSeq(rows, LAMBDA r : r[col] = keys[i]), VALUE_COL)>>])
    IN  sums(GroupKeys(rows, col))

\* sort_values(ascending=False) with the default kind, quicksort, which is
\* not stable: every arrangement in descending order of total is possible.
SortValuesDesc(g) ==
    LET n == Len(g)
        sorted == {p \in Permutations(1..n) :
                      \A i \in 1..n : \A j \in 1..n : i < j => g[p[i]][2] >= g[p[j]][2]}
    IN  {AsSeq([i \in 1..n |-> g[p[i]]]) : p \in sorted}

RECURSIVE StableDesc(_)
\* The n-largest selection's order (a mergesort of the negated totals):
\* descending, equal totals in their order in the series.
StableDesc(g) ==
    IF g = <<>> THEN <<>>
    ELSE LET k == CHOOSE i \in 1..Len(g) :
                      /\ \A j \in 1..Len(g) : g[i][2] >= g[j][2]
                      /\ \A j \in 1..(i - 1) : g[j][2] < g[i][2]
         IN  <<g[k]>> \o StableDesc(AsSeq([i \in 1..(Len(g) - 1) |-> IF i < k THEN g[i] ELSE g[i + 1]]))

Head_n(s, n) == SubSeq(s, 1, IF n < Len(s) THEN n ELSE Len(s))

\* Series.nlargest(n), keep='first': with n >= len the series is sorted by
\* sort_values (unstable) and cut; otherwise the stable selection is used.
nlargest(g, n) ==
    IF n >= Len(g)
    THEN {Head_n(u, n) : u \in SortValuesDesc(g)}
    ELSE {Head_n(StableDesc(g), n)}

(***************************************************************************)
(* The KPIs (lines 146-171).                                               *)
(***************************************************************************)
\* df['district_clean'].nunique(): every district with a record.
districts_with_records(rows) ==
    Cardinality({rows[i][DISTRICT_COL] : i \in 1..Len(rows)} \ {NA})

\* df[df[VALUE_COL] > 0]['district_clean'].nunique()
active_districts(rows) ==
    Cardinality(Unique(SelectSeq(rows, LAMBDA r : r[VALUE_COL] > 0), DISTRICT_COL) \ {NA})

\* groupby(col)[VALUE_COL].sum().nlargest(1).index, then [0] or "N/A"
TopOf(rows, col) ==
    {IF t = <<>> THEN "N/A" ELSE t[1][1] : t \in nlargest(GroupBySum(rows, col), 1)}

top_sector(t) ==
    IF SECTOR_COL \in t.cols THEN TopOf(t.rows, SECTOR_COL) ELSE {"N/A"}

\* The bucket of a date under a resample rule ('Y', 'Q', 'M'), as a number.
PeriodOf(date, aggregation_period) ==
    CASE aggregation_period = "Yearly" -> date[1]
      [] aggregation_period = "Quarterly" -> date[1] * 4 + ((date[2] - 1) \div 3)
      [] aggregation_period = "Monthly" -> date[1] * 12 + (date[2] - 1)

\* df.set_index('date').resample(rule)[VALUE_COL].sum(): one total for every
\* bucket from the first to the last, empty buckets included.
period_df(rows, aggregation_period) ==
    LET buckets(lo, hi) ==
            AsSeq([i \in 1..(hi - lo + 1) |->
                <<lo + i - 1,
                  SumOf(SelectSeq(rows, LAMBDA r :
                            PeriodOf(r["date"], aggregation_period) = lo + i - 1),
                        VALUE_COL)>>])
        span(P) == buckets(CHOOSE p \in P : \A q \in P : p <= q,
                           CHOOSE p \in P : \A q \in P : p >= q)
    IN  IF rows = <<>> THEN <<>>
        ELSE span({PeriodOf(rows[i]["date"], aggregation_period) : i \in 1..Len(rows)})

\* period_df.max() and period_df.idxmax() (the first bucket with the maximum)
peak_value(pdf) ==
    IF pdf = <<>> THEN 0
    ELSE LET k == CHOOSE i \in 1..Len(pdf) : \A j \in 1..Len(pdf) : pdf[i][2] >= pdf[j][2]
         IN  pdf[k][2]

peak_period_ts(pdf) ==
    LET k == CHOOSE i \in 1..Len(pdf) :
                 /\ \A j \in 1..Len(pdf) : pdf[i][2] >= pdf[j][2]
                 /\ \A j \in 1..(i - 1) : pdf[j][2] < pdf[i][2]
    IN  pdf[k][1]

\* str(ts.year), f"Q{ts.quarter} {ts.year}", ts.strftime('%B %Y')
peak_period_str(pdf, aggregation_period) ==
    IF pdf = <<>> THEN <<"N/A">>
    ELSE LET p == peak_period_ts(pdf)
         IN  CASE aggregation_period = "Yearly" -> <<p>>
               [] aggregation_period = "Quarterly" -> <<"Q", (p % 4) + 1, p \div 4>>
               [] aggregation_period = "Monthly" -> <<month_order[(p % 12) + 1], p \div 12>>

(***************************************************************************)
(* The chart inputs (lines 184-262).                                       *)
(***************************************************************************)
\* merge(how='inner'): only the regions that have a district total.
InnerMerge(left, right) ==
    LET hit == SelectSeq(left, LAMBDA name : \E j \in 1..Len(right) : right[j][1] = name)
    IN  AsSeq([i \in 1..Len(hit) |->
            [shapeName |-> hit[i], isna |-> FALSE,
             Total |-> (CHOOSE g \in {right[j] : j \in 1..Len(right)} : g[1] = hit[i])[2]]])

RECURSIVE LeftMerge(_, _)
\* gdf_districts.merge(district_cases, left_on='shapeName',
\* right_on='district_clean', how='left'): per region, one row for every
\* district total of that name, or one row of NaN.
LeftMerge(left, right) ==
    IF left = <<>> THEN <<>>
    ELSE LET name == Head(left)
             here(m) == IF m = <<>>
                        THEN <<[shapeName |-> name, isna |-> TRUE, Total |-> 0]>>
                        ELSE AsSeq([j \in 1..Len(m) |->
                                [shapeName |-> name, isna |-> FALSE, Total |-> m[j][2]]])
         IN  here(SelectSeq(right, LAMBDA g : g[1] = name)) \o LeftMerge(Tail(left), right)

\* .fillna(0)
FillNa0(merged) ==
    AsSeq([i \in 1..Len(merged) |->
        [shapeName |-> merged[i].shapeName,
         Total |-> IF merged[i].isna THEN 0 ELSE merged[i].Total]])

merged_gdf(gdf, rows) == FillNa0(LeftMerge(gdf, GroupBySum(rows, DISTRICT_COL)))

\* groupby(col)[VALUE_COL].sum().nlargest(15).sort_values(ascending=False)
TopChart(rows, col) ==
    UNION {SortValuesDesc(t) : t \in nlargest(GroupBySum(rows, col), TopN)}

NoChart == [shown |-> FALSE, data |-> <<>>]
Chart(data) == [shown |-> TRUE, data |-> data]

top_15_districts(t) ==
    IF DISTRICT_COL \in t.cols
    THEN {Chart(c) : c \in TopChart(t.rows, DISTRICT_COL)}
    ELSE {NoChart}

top_sectors(t) ==
    IF SECTOR_COL \in t.cols
    THEN {Chart(c) : c \in TopChart(t.rows, SECTOR_COL)}
    ELSE {NoChart}

\* col in df.columns and df[col].notna().any()
HasValues(t, col) ==
    /\ col \in t.cols
    /\ \E i \in 1..Len(t.rows) : t.rows[i][col] # NA

\* groupby([AGE_COL, GENDER_COL])[VALUE_COL].sum(): rows with NaN in either
\* key are dropped, keys in sorted order.
GroupByAgeGender(rows) ==
    LET sums(keys) ==
            AsSeq([i \in 1..Len(keys) |->
               <<keys[i],
                 SumOf(SelectSeq(rows, LAMBDA r :
                           <<r[AGE_COL], r[GENDER_COL]>> = keys[i]), VALUE_COL)>>])
        sorted(K) ==
            SortByRank(K, [k \in K |-> StrRank(k[1]) * (Len(StrOrder) + 1) + StrRank(k[2])])
    IN  sums(sorted({k \in {<<rows[i][AGE_COL], rows[i][GENDER_COL]>> : i \in 1..Len(rows)} :
                        k[1] # NA /\ k[2] # NA}))

demographics(t) ==
    IF HasValues(t, AGE_COL) /\ HasValues(t, GENDER_COL)
    THEN [kind |-> "age_gender", data |-> GroupByAgeGender(t.rows)]
    ELSE IF HasValues(t, AGE_COL)
    THEN [kind |-> "age", data |-> GroupBySum(t.rows, AGE_COL)]
    ELSE [kind |-> "unavailable", data |-> <<>>]

\* The trend chart's table: the buckets with their labels.
trend_df(pdf, aggregation_period) ==
    AsSeq([i \in 1..Len(pdf) |->
        [period |-> pdf[i][1],
         Total_Cases |-> pdf[i][2],
         period_str |-> CASE aggregation_period = "Yearly" -> <<pdf[i][1]>>
                          [] aggregation_period = "Quarterly" ->
                               <<pdf[i][1] \div 4, "Q", (pdf[i][1] % 4) + 1>>
                          [] aggregation_period = "Monthly" -> <<>>]])

(***************************************************************************)
(* One script run.                                                         *)
(***************************************************************************)
NoTable == [cols |-> {}, rows |-> <<>>]
NoOut == [computed |-> FALSE, error |-> ""]
\* An uncaught KeyError: the run ends with the exception shown.
KeyError(col) == [computed |-> FALSE, error |-> col]

\* Everything lines 146-262 compute from the filtered table, pdf being
\* period_df; a set, since the order of equal totals after sort_values is not
\* determined.
Outputs(t, gdf, aggregation_period, pdf) ==
    {[computed |-> TRUE, error |-> "",
      total_cases |-> SumOf(t.rows, VALUE_COL),
      active_districts |-> active_districts(t.rows),
      top_district |-> td,
      top_sector |-> ts,
      peak_value |-> peak_value(pdf),
      peak_period_str |-> peak_period_str(pdf, aggregation_period),
      merged_gdf |-> merged_gdf(gdf, t.rows),
      trend_df |-> trend_df(pdf, aggregation_period),
      top_15_districts_df |-> c1,
      top_sectors_df |-> c2,
      demographics |-> demographics(t)] :
        td \in TopOf(t.rows, DISTRICT_COL), ts \in top_sector(t),
        c1 \in top_15_districts(t), c2 \in top_sectors(t)}

\* A script that filters the selected source table itself.
FilteredInPlace(source, filtered) == [source EXCEPT !.rows = filtered.rows]

\* The selected source table after a run: lines 73 and 126 take copies and
\* lines 131-136 rebind df to new tables, so the run leaves it as it was.
SourceAfterRun(source, filtered) == source

(***************************************************************************)
(* The widgets.  A selectbox or radio keeps the user's choice from one run *)
(* to the next as long as it is rendered with the same options; rendered   *)
(* for the first time, or with other options, it shows its first option.   *)
(***************************************************************************)
Widgets == {"dataset", "aggregation", "district", "year", "month"}

DefaultSel ==
    [dataset |-> DatasetNames[1], aggregation |-> "Yearly",
     district |-> AllDistricts, year |-> AllYears, month |-> AllMonths]

\* The widgets the last run rendered before it ended.
Rendered ==
    IF stage \in {"done", "stopped_empty"} \/ (stage = "raised" /\ out.error = VALUE_COL)
    THEN Widgets
    ELSE IF stage = "raised" /\ out.error = DISTRICT_COL
    THEN {"dataset", "aggregation"}
    ELSE {}

\* The options the page shows for widget w after the last run.
Shown(w) ==
    LET master == cache.datasets[sel.dataset]
    IN  CASE w = "dataset" -> Range(DatasetNames)
          [] w = "aggregation" -> AggregationPeriods
          [] w = "district" -> Range(district_list(master))
          [] w = "year" -> Range(year_list(master))
          [] w = "month" -> Range(available_months(master, sel.year))

\* The value a filter widget returns: the browser's, if the widget was
\* rendered before with these options, else the first option.
selected_district(old, df_master, req, kept) ==
    IF "district" \in kept /\ district_list(old) = district_list(df_master)
    THEN req.district ELSE AllDistricts

selected_year(old, df_master, req, kept) ==
    IF "year" \in kept /\ year_list(old) = year_list(df_master)
    THEN req.year ELSE AllYears

selected_month(old, df_master, req, kept, y) ==
    IF "month" \in kept /\ available_months(old, sel.year) = available_months(df_master, y)
    THEN req.month ELSE AllMonths

\* Lines 125-264: the filtered table t, the empty check, the KPIs and charts.
Display(value, name, agg, d, y, m, t) ==
    /\ sel' = [dataset |-> name, aggregation |-> agg, district |-> d, year |-> y, month |-> m]
    /\ df' = t
    /\ cache' = [value EXCEPT !.datasets[name] = SourceAfterRun(@, t)]
    /\ IF StopsOnEmpty(t.rows)
       THEN stage' = "stopped_empty" /\ out' = NoOut
       ELSE IF VALUE_COL \notin t.cols
       THEN stage' = "raised" /\ out' = KeyError(VALUE_COL)
       ELSE /\ stage' = "done"
            /\ out' \in Outputs(t, value.gdf, agg, period_df(t.rows, agg))

\* Lines 91-136: the filter widgets and the filter block.
Filters(value, req, kept, name, agg, df_master, old) ==
    IF DISTRICT_COL \notin df_master.cols
    THEN /\ stage' = "raised"
         /\ out' = KeyError(DISTRICT_COL)
         /\ sel' = [DefaultSel EXCEPT !.dataset = name, !.aggregation = agg]
         /\ df' = NoTable
         /\ cache' = value
    ELSE \E d \in {selected_district(old, df_master, req, kept)},
            y \in {selected_year(old, df_master, req, kept)} :
         \E m \in {selected_month(old, df_master, req, kept, y)} :
            Display(value, name, agg, d, y, m,
                    [cols |-> df_master.cols,
                     rows |-> FilterRows(copy(df_master).rows, d, y, m)])

\* Lines 63-264 on the loaded data: req is the widget state the browser
\* sends, kept the widgets it is valid for.
Script(value, req, kept) ==
    LET name == IF "dataset" \in kept THEN req.dataset ELSE DefaultSel.dataset
        agg == IF "aggregation" \in kept THEN req.aggregation ELSE DefaultSel.aggregation
    IN  Filters(value, req, kept, name, agg,
                copy(value.datasets[name]), value.datasets[sel.dataset])

\* One run of the script with the files as they are on disk: load_all_data()
\* through st.cache_data (a call that raises stores nothing), st.stop()
\* without data, else the script.
Run(disk, req, kept) ==
    LET hit == cache # EmptyCache
        load == IF hit
                THEN [kind |-> IF cache = NoneNone THEN "none" ELSE "ok",
                      read |-> {}, value |-> cache]
                ELSE load_all_data(disk, content)
    IN  /\ hit \/ \A f \in Files : reads[f] < MaxReads
        /\ fs' = IF hit THEN fs ELSE disk
        /\ reads' = [f \in Files |-> IF f \in load.read THEN reads[f] + 1 ELSE reads[f]]
        /\ UNCHANGED content
        /\ CASE load.kind = "raise" ->
                  /\ stage' = "raised"
                  /\ out' = KeyError("year/month")
                  /\ df' = NoTable
                  /\ UNCHANGED <<cache, sel>>
             [] load.kind = "none" ->
                  /\ stage' = "stopped_load"
                  /\ out' = NoOut
                  /\ df' = NoTable
                  /\ cache' = load.value
                  /\ UNCHANGED sel
             [] load.kind = "ok" -> Script(load.value, req, kept)

FileStates(f) == IF f = GeoFile THEN {"present", "absent", "bad"} ELSE {"present", "absent"}

Disks == {d \in [Files -> {"present", "absent", "bad"}] : \A f \in Files : d[f] \in FileStates(f)}

AllPresent == [f \in Files |-> "present"]

\* The user changes one widget of the page, which reruns the script.
Change(disks) ==
    \E disk \in (IF cache = EmptyCache THEN disks ELSE {fs}) :
    \E w \in Rendered : \E v \in Shown(w) \ {sel[w]} :
        Run(disk, [sel EXCEPT ![w] = v], Rendered)

\* The script reruns with the widgets as they are.
Rerun(disks) ==
    \E disk \in (IF cache = EmptyCache THEN disks ELSE {fs}) :
        Run(disk, sel, Rendered)

\* The page is opened in a new session: every widget is new.
Open(disks) ==
    \E disk \in (IF cache = EmptyCache THEN disks ELSE {fs}) :
        Run(disk, DefaultSel, {})

(***************************************************************************)
(* The inputs.                                                             *)
(***************************************************************************)
MkRow(d, s, y, m, t, a, g) ==
    [district_clean |-> d, sector |-> s, year |-> y, month |-> m,
     Total |-> t, age_category_new |-> a, gender |-> g]

\* A CSV file without some columns.
Table(cols, rows) ==
    [cols |-> cols, rows |-> AsSeq([i \in 1..Len(rows) |-> [c \in cols |-> rows[i][c]]])]

SeqsUpTo(S, n) == UNION {[1..k -> S] : k \in 0..n}

\* Rows that differ in what the filters read.
FilterInputRows ==
    {MkRow(k[1], "S1", k[2], k[3], 5, "U5", "F") :
        k \in {<<"A", 2020, "January">>, <<"A", 2021, "January">>, <<"A", 2021, "February">>,
               <<"B", 2020, "January">>, <<"B", 2021, "February">>}}

\* The sector, age and gender cells of a row with one of them missing.
OptionalCells ==
    {<<NA, "U5", "F">>, <<"S1", NA, "F">>, <<"S1", "U5", NA>>}

\* Rows that differ in what the aggregations read: the district, a total of
\* zero or more, a missing cell.
AggInputRows ==
    {MkRow(d, "S1", 2021, "January", t, "U5", "F") : d \in {"A", "B"}, t \in {0, 5}}
        \cup {MkRow("A", o[1], 2021, "January", 5, o[2], o[3]) : o \in OptionalCells}

\* The scenario of the specification: A has 10 cases in January 2021 and B
\* has 5 in February 2021.
ScenarioRows ==
    <<MkRow("A", "S1", 2021, "January", 10, "U5", "F"),
      MkRow("B", "S1", 2021, "February", 5, "U5", "F")>>

DataTables ==
    {Table(RawCols, r) :
        r \in SeqsUpTo(FilterInputRows, MaxRows) \cup SeqsUpTo(AggInputRows, MaxRows)
                 \cup {ScenarioRows}}

SampleRows ==
    <<MkRow("A", "S1", 2020, "January", 5, "U5", "F"),
      MkRow("B", NA, 2021, "February", 10, "U5", NA)>>

\* The sample with all its columns, with one column missing, and without rows.
SchemaTables ==
    {Table(RawCols, SampleRows), Table(RawCols, <<>>)}
        \cup {Table(RawCols \ {c}, SampleRows) : c \in RawCols}

ChwTable ==
    Table(RawCols \ {GENDER_COL}, <<MkRow("A", "S1", 2021, "January", 5, "U5", NA)>>)

FeverTable ==
    Table({DISTRICT_COL, "year", "month", VALUE_COL},
          <<MkRow("C", NA, 2020, "March", 10, NA, NA)>>)

\* The process starts with an empty cache and nothing shown; fs is the disk
\* as the last load found it.
InitRest ==
    /\ fs = AllPresent
    /\ cache = EmptyCache
    /\ reads = [f \in Files |-> 0]
    /\ stage = "init"
    /\ sel = DefaultSel
    /\ df = NoTable
    /\ out = NoOut

\* The sample files, present, absent or unparsable at each load.
Init ==
    /\ \E t \in SchemaTables : content = [opd |-> t, chw |-> ChwTable, fever |-> FeverTable]
    /\ InitRest

Next == Change(Disks) \/ Rerun(Disks) \/ Open(Disks)

Spec == Init /\ [][Next]_vars

\* A CSV file with its header line only.
HeaderOnly(t) == Table(t.cols, <<>>)

\* The same program on files that are all in place: the OPD file holds any
\* table of up to MaxRows rows, the other two their header line.
InitData ==
    /\ \E t \in DataTables :
          content = [opd |-> t, chw |-> HeaderOnly(ChwTable), fever |-> HeaderOnly(FeverTable)]
    /\ InitRest

NextData == Change({AllPresent}) \/ Rerun({AllPresent}) \/ Open({AllPresent})

SpecData == InitData /\ [][NextData]_vars

(***************************************************************************)
(* Properties.  The filtered table of the last run is df, its selections   *)
(* sel, its source table Master.                                           *)
(***************************************************************************)
RanFilter ==
    stage \in {"done", "stopped_empty"} \/ (stage = "raised" /\ out.error = VALUE_COL)

Master == cache.datasets[sel.dataset]

AllSelected ==
    sel.district = AllDistricts /\ sel.year = AllYears /\ sel.month = AllMonths

\* Record r matches every component of the selection that is not "all".
Matches(r) ==
    /\ sel.district = AllDistricts \/ r[DISTRICT_COL] = sel.district
    /\ sel.year = AllYears \/ r["year"] = sel.year[1]
    /\ sel.month = AllMonths \/ r["month"] = sel.month

RECURSIVE SumTotals(_)
\* The sum of the totals of a sequence of <<key, total>>.
SumTotals(g) == IF g = <<>> THEN 0 ELSE g[1][2] + SumTotals(Tail(g))

RECURSIVE SumMap(_)
SumMap(mg) == IF mg = <<>> THEN 0 ELSE mg[1].Total + SumMap(Tail(mg))

\* The districts of the filtered table and their summed case totals.
DistrictsOf(rows) == {rows[i][DISTRICT_COL] : i \in 1..Len(rows)}
DistrictTotal(rows, d) == SumOf(SelectSeq(rows, LAMBDA r : r[DISTRICT_COL] = d), VALUE_COL)
KeyTotal(rows, col, k) == SumOf(SelectSeq(rows, LAMBDA r : r[col] = k), VALUE_COL)

\* C1 as stated: a selection that matches no record still reaches the KPI
\* and chart stage, which reports total 0, no active district, top district
\* "N/A" and empty chart inputs.
C1_EmptySelectionReachesKpis ==
    (RanFilter /\ SelectSeq(Master.rows, Matches) = <<>>) =>
        /\ stage = "done"
        /\ out.total_cases = 0
        /\ out.active_districts = 0
        /\ out.top_district = "N/A"
        /\ out.top_15_districts_df.data = <<>>

\* C1 amended: a selection that matches no record ends the run at the empty
\* check, with a warning and no exception, before any KPI or chart input is
\* computed; and only such a selection ends it there.
C1_EmptySelectionStopsRun ==
    /\ (RanFilter /\ SelectSeq(Master.rows, Matches) = <<>>) =>
           (stage = "stopped_empty" /\ out = NoOut /\ df.rows = <<>>)
    /\ stage = "stopped_empty" => SelectSeq(Master.rows, Matches) = <<>>

C1_Witness ==
    /\ stage = "stopped_empty"
    /\ Master.rows # <<>>
    /\ sel.district # AllDistricts
    /\ sel.year # AllYears

\* The files that were absent or unparsable when load_all_data last ran.
MissingAtLoad == {f \in Files : fs[f] # "present"}

\* C2 as stated: a missing source file is never fatal; the run goes on with
\* the datasets and features that do not depend on it.
C2_MissingFileDegradesOnlyItsPart ==
    (cache # EmptyCache /\ MissingAtLoad # {}) =>
        (cache.state = "loaded" /\ stage # "stopped_load")

\* C2 amended: a missing tabular file, or a missing or unparsable GeoJSON
\* file, raises no exception but ends every run at the loader:
\* load_all_data returns (None, None) and the script stops before any
\* dataset is selectable or any filter, KPI or chart is computed.
C2_MissingFileStopsRun ==
    /\ (cache # EmptyCache /\ MissingAtLoad # {}) =>
           (cache = NoneNone /\ stage = "stopped_load" /\ out = NoOut /\ df = NoTable)
    /\ cache = NoneNone => MissingAtLoad # {}
    /\ cache.state = "loaded" => stage # "stopped_load"

C2_Witness ==
    /\ stage = "stopped_load"
    /\ fs["chw"] = "absent"
    /\ \A f \in Files \ {"chw"} : fs[f] = "present"

\* C3: the filtered table is the subsequence of the source records, in
\* their order, that match every component of the selection that is not
\* "all"; with all three "all" it is the source table, record for record.
C3_FilterIsMatchingSubsequence ==
    RanFilter =>
        /\ df.rows = SelectSeq(Master.rows, Matches)
        /\ df.cols = Master.cols
        /\ AllSelected => df = Master

C3_Witness ==
    /\ stage = "done"
    /\ sel.district # AllDistricts /\ sel.year # AllYears /\ sel.month # AllMonths
    /\ Len(df.rows) < Len(Master.rows)

\* C4 as stated: for every grouping (district, sector, age category and
\* gender) the group totals add up to the "Total cases" KPI, records with a
\* missing grouping field included.  (No table of the model has more than
\* TopN groups, so a chart holds every group.)
C4_GroupTotalsAddUpToTotal ==
    stage = "done" =>
        /\ SumTotals(out.top_15_districts_df.data) = out.total_cases
        /\ out.top_sectors_df.shown => SumTotals(out.top_sectors_df.data) = out.total_cases
        /\ out.demographics.kind # "unavailable" =>
               SumTotals(out.demographics.data) = out.total_cases

\* C5: the choropleth input has one entry per region, in the regions'
\* order, with the district total of the same name or 0; a district that
\* matches no region has no entry, and its records count in "Total cases".
C5_ChoroplethIsLeftJoin ==
    stage = "done" =>
        LET mg == out.merged_gdf
            unmatched == DistrictsOf(df.rows) \ Range(Regions)
            rest == SortByRank(unmatched, [x \in unmatched |-> StrRank(x)])
        IN  /\ Len(mg) = Len(Regions)
            /\ \A i \in 1..Len(mg) :
                  /\ mg[i].shapeName = Regions[i]
                  /\ mg[i].Total = IF Regions[i] \in DistrictsOf(df.rows)
                                   THEN DistrictTotal(df.rows, Regions[i]) ELSE 0
            /\ out.total_cases =
                  SumMap(mg) + SumTotals([i \in 1..Len(rest) |->
                                             <<rest[i], DistrictTotal(df.rows, rest[i])>>])

C5_Witness ==
    /\ stage = "done"
    /\ \E i \in 1..Len(df.rows) : df.rows[i][DISTRICT_COL] = "B" /\ df.rows[i][VALUE_COL] > 0
    /\ \E i \in 1..Len(df.rows) : df.rows[i][DISTRICT_COL] = "A" /\ df.rows[i][VALUE_COL] > 0
    /\ out.total_cases > SumMap(out.merged_gdf)

FirstRow(rows, col, k) == CHOOSE i \in 1..Len(rows) :
                              rows[i][col] = k /\ \A j \in 1..(i - 1) : rows[j][col] # k
Largest(rows, col) ==
    LET K == {rows[i][col] : i \in 1..Len(rows)} \ {NA}
    IN  {k \in K : \A z \in K : KeyTotal(rows, col, k) >= KeyTotal(rows, col, z)}

Descending(g) == \A i \in 1..Len(g) : \A j \in 1..Len(g) : i < j => g[i][2] >= g[j][2]

MinOf(a, b) == IF a < b THEN a ELSE b

\* The ranking of the groups of column col in chart data g: descending,
\* min(TopN, number of groups) entries, each a group with its total.
RanksGroups(g, rows, col) ==
    LET K == {rows[i][col] : i \in 1..Len(rows)} \ {NA}
    IN  /\ Descending(g)
        /\ Len(g) = MinOf(TopN, Cardinality(K))
        /\ \A i \in 1..Len(g) : g[i][1] \in K /\ g[i][2] = KeyTotal(rows, col, g[i][1])
        /\ \A i \in 1..Len(g) : \A j \in 1..Len(g) : i # j => g[i][1] # g[j][1]

\* C7 as stated: the ranking is descending by total, has min(n, number of
\* groups) entries, and among groups with equal totals keeps the one that
\* occurs first in the filtered table.
C7_TiesKeepFirstOccurrence ==
    stage = "done" =>
        /\ RanksGroups(out.top_15_districts_df.data, df.rows, DISTRICT_COL)
        /\ \A k \in Largest(df.rows, DISTRICT_COL) :
              (\A z \in Largest(df.rows, DISTRICT_COL) :
                   FirstRow(df.rows, DISTRICT_COL, k) <= FirstRow(df.rows, DISTRICT_COL, z))
                  => out.top_district = k

\* C7 amended: the ranking is descending by total and has min(n, number of
\* groups) entries; among groups with equal totals the one kept at the
\* cut-off (top district, top sector) is the first in ascending key order,
\* whatever the order of the records; the order of tied groups inside the
\* top-15 result is not fixed.
C7_TiesKeepSmallestKey ==
    stage = "done" =>
        /\ RanksGroups(out.top_15_districts_df.data, df.rows, DISTRICT_COL)
        /\ out.top_sectors_df.shown =>
               RanksGroups(out.top_sectors_df.data, df.rows, SECTOR_COL)
        /\ \A k \in Largest(df.rows, DISTRICT_COL) :
              (\A z \in Largest(df.rows, DISTRICT_COL) : StrRank(k) <= StrRank(z))
                  => out.top_district = k
        /\ SECTOR_COL \in df.cols =>
              /\ \A k \in Largest(df.rows, SECTOR_COL) :
                    (\A z \in Largest(df.rows, SECTOR_COL) : StrRank(k) <= StrRank(z))
                        => out.top_sector = k
              /\ Largest(df.rows, SECTOR_COL) = {} => out.top_sector = "N/A"

C7_Witness ==
    /\ stage = "done"
    /\ Largest(df.rows, DISTRICT_COL) = {"A", "B"}
    /\ df.rows[1][DISTRICT_COL] = "B"
    /\ df.rows[1][VALUE_COL] > 0
    /\ out.top_district = "A"
    /\ out.top_15_districts_df.data[1][1] = "B"

C9_EachFileReadAtMostOnce == \A f \in Files : reads[f] <= 1

\* C10 as stated: whatever field the selected dataset lacks, the run does
\* not raise; what depends on the field is unavailable and the rest is
\* computed.
C10_AbsentFieldNeverRaises ==
    /\ stage # "raised"
    /\ (stage = "done" /\ SECTOR_COL \notin df.cols) =>
           (out.top_sector = "N/A" /\ ~out.top_sectors_df.shown)
    /\ (stage = "done" /\ AGE_COL \notin df.cols) => out.demographics.kind = "unavailable"

====
